---- MODULE Spec2Model ----
(***************************************************************************)
(* SecureGuard CMS (bekalu07/simple-cms): the access-decision engine       *)
(* checkAccess and the login / lockout state machine spread over App,      *)
(* AuthScreen, Profile and AccessControlPanel.                             *)
(*                                                                         *)
(* React state is modelled by its committed value: each handler is one     *)
(* atomic step that reads the state of the render it was created in and    *)
(* applies all of its setState calls.                                      *)
(***************************************************************************)
EXTENDS Integers, Sequences, FiniteSets, TLC

VARIABLES
    users,          \* App: useState<User[]>(MOCK_USERS), the user registry
    currentUser,    \* App: useState<User | null>, the record used for decisions
    config,         \* App: useState<SystemConfig>(INITIAL_CONFIG)
    step,           \* AuthScreen: 'CREDENTIALS' | 'MFA'
    tempUser,       \* AuthScreen: the user awaiting the second factor
    captcha,        \* AuthScreen: the answer of the current puzzle
    editingId,      \* UserManagement: id of the row being edited
    editForm,       \* UserManagement: the edit form (a copy of the row)
    hour,           \* the clock: new Date().getHours()
    decisions,      \* harness: the Decisions of the last evaluation round
    streak,         \* history: per username, the failed attempts since the
                    \* last successful login or unlock
    resources,      \* App: useState<Resource[]>(MOCK_RESOURCES)
    selectedResource,   \* ResourceList: the resource shown in the viewer
    pending         \* the handlers of AuthScreen waiting on hashPassword

vars == <<users, currentUser, config, step, tempUser, captcha,
          editingId, editForm, hour, decisions, streak,
          resources, selectedResource, pending>>

resourceVars == <<resources, selectedResource>>

\* the state of App and of its mounted components, without the harness
appVars == <<users, currentUser, config, step, tempUser, captcha,
             editingId, editForm, streak, resourceVars, pending>>

-----------------------------------------------------------------------------
(* types.ts *)

PUBLIC == 0
INTERNAL == 1
CONFIDENTIAL == 2
TOP_SECRET == 3

SecurityLevel == {PUBLIC, INTERNAL, CONFIDENTIAL, TOP_SECRET}

\* SecurityLevel[level]: the reverse mapping of the numeric enum
SecurityLevelName(level) ==
    CASE level = PUBLIC -> "PUBLIC"
      [] level = INTERNAL -> "INTERNAL"
      [] level = CONFIDENTIAL -> "CONFIDENTIAL"
      [] level = TOP_SECRET -> "TOP_SECRET"

Role == {"ADMIN", "MANAGER", "STAFF", "AUDITOR"}

DepartmentList == <<"IT", "HR", "FINANCE", "SALES">>

Department == {DepartmentList[i] : i \in 1..Len(DepartmentList)}

-----------------------------------------------------------------------------
(* Bounds of the model *)

\* hours of the day run 0..MaxHour in the evaluation harness
MaxHour == 1

Hours == 0..MaxHour

-----------------------------------------------------------------------------
(* services/securityService.ts: checkAccess *)

\* sharedWith.includes(id)
Includes(list, id) == \E i \in 1..Len(list) : list[i] = id

Granted == [allowed |-> TRUE, reason |-> <<"Access Granted">>]

Deny(reason) == [allowed |-> FALSE, reason |-> reason]

\* A reason is kept as the fragments of its template string; the first
\* fragment is the model tag that opens the string.
MacReason(user, resource) ==
    <<"MAC: ", "Clearance Level ", SecurityLevelName(user.clearanceLevel),
      " is insufficient for ", SecurityLevelName(resource.classification),
      " data.">>

AbacReason(user, resource) ==
    <<"ABAC: ", "User department (", user.department,
      ") does not match resource department (", resource.department, ").">>

RbacAdminReason == <<"RBAC: ", "Only ADMIN role can access TOP_SECRET resources.">>

RbacStaffReason ==
    <<"RBAC: ", "STAFF role cannot access CONFIDENTIAL or higher resources.">>

RubacReason(cfg) ==
    <<"RuBAC: ", "Access denied outside working hours (",
      ToString(cfg.workingHoursStart), ":00 - ",
      ToString(cfg.workingHoursEnd), ":00).">>

DacReason ==
    <<"DAC: ", "You do not own this resource and it has not been shared with you.">>

\* mutant: MAC is enforced whether or not it is enabled
MacDeniesUntoggled(user, resource, cfg) ==
    user.clearanceLevel < resource.classification

\* mutant: the levels are compared for equality, not by order
MacDeniesUnequal(user, resource, cfg) ==
    cfg.enableMAC /\ user.clearanceLevel # resource.classification

MacDenies(user, resource, cfg) ==
    cfg.enableMAC /\ user.clearanceLevel < resource.classification

\* mutant: PUBLIC resources are not exempt
AbacDeniesPublicToo(user, resource, cfg) ==
    /\ cfg.enableABAC
    /\ user.role # "ADMIN" /\ user.department # resource.department

\* mutant: the department rule applies while ABAC is switched off
AbacDeniesWhenOff(user, resource, cfg) ==
    /\ ~cfg.enableABAC
    /\ user.role # "ADMIN" /\ user.department # resource.department
    /\ resource.classification > PUBLIC

AbacDenies(user, resource, cfg) ==
    /\ cfg.enableABAC
    /\ user.role # "ADMIN" /\ user.department # resource.department
    /\ resource.classification > PUBLIC

RbacAdminDenies(user, resource, cfg) ==
    cfg.enableRBAC /\ resource.classification = TOP_SECRET /\ user.role # "ADMIN"

\* mutant: STAFF is stopped only above CONFIDENTIAL
RbacStaffDeniesAboveConfidential(user, resource, cfg) ==
    /\ cfg.enableRBAC
    /\ resource.classification > CONFIDENTIAL /\ user.role = "STAFF"

RbacStaffDenies(user, resource, cfg) ==
    cfg.enableRBAC /\ resource.classification >= CONFIDENTIAL /\ user.role = "STAFF"

\* mutant: a window with start > end wraps past midnight
RubacDeniesWrapAround(user, cfg, currentHour) ==
    /\ cfg.enableRuBAC
    /\ IF cfg.workingHoursStart <= cfg.workingHoursEnd
       THEN currentHour < cfg.workingHoursStart \/ currentHour >= cfg.workingHoursEnd
       ELSE currentHour < cfg.workingHoursStart /\ currentHour >= cfg.workingHoursEnd
    /\ user.role # "ADMIN"

\* mutant: ADMIN does not bypass the time rule
RubacDeniesAdminToo(user, cfg, currentHour) ==
    /\ cfg.enableRuBAC
    /\ (currentHour < cfg.workingHoursStart \/ currentHour >= cfg.workingHoursEnd)

\* mutant: the closing hour still counts as a working hour
RubacDeniesAfterEnd(user, cfg, currentHour) ==
    /\ cfg.enableRuBAC
    /\ (currentHour < cfg.workingHoursStart \/ currentHour > cfg.workingHoursEnd)
    /\ user.role # "ADMIN"

RubacDenies(user, cfg, currentHour) ==
    /\ cfg.enableRuBAC
    /\ (currentHour < cfg.workingHoursStart \/ currentHour >= cfg.workingHoursEnd)
    /\ user.role # "ADMIN"

\* mutant: a MANAGER of the resource's department gets no exception
DacDeniesManagerToo(user, resource, cfg) ==
    /\ cfg.enableDAC
    /\ resource.ownerId # user.id
    /\ ~Includes(resource.sharedWith, user.id)
    /\ user.role # "ADMIN"
    /\ resource.classification > PUBLIC

\* mutant: DAC is enforced whether or not it is enabled
DacDeniesUntoggled(user, resource, cfg) ==
    /\ resource.ownerId # user.id
    /\ ~Includes(resource.sharedWith, user.id)
    /\ user.role # "ADMIN"
    /\ ~(user.role = "MANAGER" /\ user.department = resource.department)
    /\ resource.classification > PUBLIC

\* mutant: an ADMIN who neither owns nor was given the resource is stopped
DacDeniesAdminToo(user, resource, cfg) ==
    /\ cfg.enableDAC
    /\ resource.ownerId # user.id
    /\ ~Includes(resource.sharedWith, user.id)
    /\ ~(user.role = "MANAGER" /\ user.department = resource.department)
    /\ resource.classification > PUBLIC

DacDenies(user, resource, cfg) ==
    /\ cfg.enableDAC
    /\ LET isOwner == resource.ownerId = user.id
           isShared == Includes(resource.sharedWith, user.id)
           isAdmin == user.role = "ADMIN"
           isDeptManager == user.role = "MANAGER"
                            /\ user.department = resource.department
       IN  ~isOwner /\ ~isShared /\ ~isAdmin /\ ~isDeptManager
           /\ resource.classification > PUBLIC

\* mutant: RBAC is evaluated before MAC
checkAccessRbacFirst(user, resource, cfg, currentHour) ==
    IF RbacAdminDenies(user, resource, cfg) THEN Deny(RbacAdminReason)
    ELSE IF RbacStaffDenies(user, resource, cfg) THEN Deny(RbacStaffReason)
    ELSE IF MacDenies(user, resource, cfg) THEN Deny(MacReason(user, resource))
    ELSE IF AbacDenies(user, resource, cfg) THEN Deny(AbacReason(user, resource))
    ELSE IF RubacDenies(user, cfg, currentHour) THEN Deny(RubacReason(cfg))
    ELSE IF DacDenies(user, resource, cfg) THEN Deny(DacReason)
    ELSE Granted

\* currentHour is the value new Date().getHours() returns during the call
checkAccess(user, resource, cfg, currentHour) ==
    IF MacDenies(user, resource, cfg) THEN Deny(MacReason(user, resource))
    ELSE IF AbacDenies(user, resource, cfg) THEN Deny(AbacReason(user, resource))
    ELSE IF RbacAdminDenies(user, resource, cfg) THEN Deny(RbacAdminReason)
    ELSE IF RbacStaffDenies(user, resource, cfg) THEN Deny(RbacStaffReason)
    ELSE IF RubacDenies(user, cfg, currentHour) THEN Deny(RubacReason(cfg))
    ELSE IF DacDenies(user, resource, cfg) THEN Deny(DacReason)
    ELSE Granted

-----------------------------------------------------------------------------
(* constants.ts *)

INITIAL_CONFIG ==
    [enableMAC |-> TRUE, enableDAC |-> TRUE, enableRBAC |-> TRUE,
     enableRuBAC |-> FALSE, enableABAC |-> TRUE,
     workingHoursStart |-> 9, workingHoursEnd |-> 17]

-----------------------------------------------------------------------------
(* Bounds of the login model *)

\* generateCaptcha draws its two numbers from 0..MaxDigit
MaxDigit == 1

\* the registry holds at most MaxUsers users
MaxUsers == 5

\* wrong second-factor tokens are entered while the count is below MaxAttempts
MaxAttempts == 4

-----------------------------------------------------------------------------
(* services/securityService.ts: hashPassword, validatePasswordStrength,    *)
(* generateCaptcha.  A password is the sequence of its characters; a      *)
(* stored passwordHash is a string.                                        *)

PwAdmin == <<"a", "d", "m", "i", "n", "1", "2", "3">>

PwStrong == <<"S", "t", "r", "0", "n", "g", "!", "p", "w">>

PwNew == <<"N", "3", "w", "!", "P", "a", "s", "s">>

\* the passwords typed into the forms; PwAdmin is too weak to be chosen
Passwords == {PwAdmin, PwStrong, PwNew}

LowerCase ==
    {"a", "b", "c", "d", "e", "f", "g", "h", "i", "j", "k", "l", "m",
     "n", "o", "p", "q", "r", "s", "t", "u", "v", "w", "x", "y", "z"}

UpperCase ==
    {"A", "B", "C", "D", "E", "F", "G", "H", "I", "J", "K", "L", "M",
     "N", "O", "P", "Q", "R", "S", "T", "U", "V", "W", "X", "Y", "Z"}

Digits == {"0", "1", "2", "3", "4", "5", "6", "7", "8", "9"}

Symbols == {"!", "@", "#", "$", "%", "^", "&", "*"}

HasCharIn(password, class) == \E i \in 1..Len(password) : password[i] \in class

\* TRUE when validatePasswordStrength returns null (no violation)
validatePasswordStrength(password) ==
    /\ HasCharIn(password, LowerCase)
    /\ HasCharIn(password, UpperCase)
    /\ HasCharIn(password, Digits)
    /\ HasCharIn(password, Symbols)
    /\ Len(password) >= 8

LowerLetters ==
    <<"a", "b", "c", "d", "e", "f", "g", "h", "i", "j", "k", "l", "m",
      "n", "o", "p", "q", "r", "s", "t", "u", "v", "w", "x", "y", "z">>

UpperLetters ==
    <<"A", "B", "C", "D", "E", "F", "G", "H", "I", "J", "K", "L", "M",
      "N", "O", "P", "Q", "R", "S", "T", "U", "V", "W", "X", "Y", "Z">>

DigitChars == <<"0", "1", "2", "3", "4", "5", "6", "7", "8", "9">>

IndexIn(seq, c) == CHOOSE i \in 1..Len(seq) : seq[i] = c

\* the byte TextEncoder gives for a character of a password
CharCode(c) ==
    CASE c \in LowerCase -> 96 + IndexIn(LowerLetters, c)
      [] c \in UpperCase -> 64 + IndexIn(UpperLetters, c)
      [] c \in Digits -> 47 + IndexIn(DigitChars, c)
      [] c = "!" -> 33 [] c = "#" -> 35 [] c = "$" -> 36 [] c = "%" -> 37
      [] c = "&" -> 38 [] c = "*" -> 42 [] c = "@" -> 64 [] c = "^" -> 94

\* encoder.encode(str)
Encode(str) == [i \in 1..Len(str) |-> CharCode(str[i])]

RECURSIVE SumOf(_, _)
SumOf(data, n) == IF n = 0 THEN 0 ELSE SumOf(data, n - 1) + n * data[n]

\* crypto.subtle.digest('SHA-256', data): 32 bytes.  SHA-256 is not
\* computed; its place is taken by a function of the data with 32 bytes
\* that tells the passwords of the model apart.
Sha256(data) ==
    LET sum == SumOf(data, Len(data))
    IN  [i \in 1..32 |->
            (sum * i + 31 * data[((i - 1) % Len(data)) + 1]) % 256]

HexChars ==
    <<"0", "1", "2", "3", "4", "5", "6", "7", "8", "9",
      "a", "b", "c", "d", "e", "f">>

\* hashArray.map(b => b.toString(16).padStart(2, '0'))
HexPieces(hashArray) ==
    [i \in 1..Len(hashArray) |->
        HexChars[(hashArray[i] \div 16) + 1]
            \o HexChars[(hashArray[i] % 16) + 1]]

RECURSIVE Join(_, _)
\* pieces.join(''), for the first n pieces
Join(pieces, n) ==
    IF n = 0 THEN "" ELSE Join(pieces, n - 1) \o pieces[n]

\* the body of hashPassword: the digest of password + "salt", in
\* hexadecimal
HexDigest(password) ==
    LET hashArray == Sha256(Encode(password \o <<"s", "a", "l", "t">>))
    IN  Join(HexPieces(hashArray), Len(hashArray))

\* the digests of the passwords typed into the forms, computed once
Digests == [password \in Passwords |-> HexDigest(password)]

hashPassword(password) == Digests[password]

\* the answers generateCaptcha can produce: num1 + num2
CaptchaAnswers == {a + b : a \in 0..MaxDigit, b \in 0..MaxDigit}

\* what is typed into the captcha field: the answer of the puzzle shown, or
\* a number that is the answer of no puzzle
CaptchaInputs(answer) == {answer, 2 * MaxDigit + 1}

-----------------------------------------------------------------------------
(* constants.ts: MOCK_USERS.  fullName, email and biometricsEnabled are    *)
(* left out: no handler reads them.                                        *)

\* 'hashed_admin123', 'hashed_alice123', 'hashed_bob123', 'hashed_charlie123'
HashedAdmin123 == "hashed_admin123"

HashedAlice123 == "hashed_alice123"

HashedBob123 == "hashed_bob123"

HashedCharlie123 == "hashed_charlie123"

SeedUser(id, username, role, department, clearanceLevel, passwordHash, mfa) ==
    [id |-> id, username |-> username, role |-> role,
     department |-> department, clearanceLevel |-> clearanceLevel,
     passwordHash |-> passwordHash, mfaEnabled |-> mfa,
     isLocked |-> FALSE, failedLoginAttempts |-> 0]

\* mutant: the stored value of admin is the digest of admin123
MockUsersWithDigest ==
    << SeedUser(<<"u", 1>>, "admin", "ADMIN", "IT", TOP_SECRET,
                hashPassword(PwAdmin), TRUE),
       SeedUser(<<"u", 2>>, "alice_manager", "MANAGER", "HR", CONFIDENTIAL,
                HashedAlice123, TRUE),
       SeedUser(<<"u", 3>>, "bob_staff", "STAFF", "FINANCE", INTERNAL,
                HashedBob123, FALSE),
       SeedUser(<<"u", 4>>, "charlie_sales", "STAFF", "SALES", PUBLIC,
                HashedCharlie123, FALSE) >>

MOCK_USERS ==
    << SeedUser(<<"u", 1>>, "admin", "ADMIN", "IT", TOP_SECRET, HashedAdmin123, TRUE),
       SeedUser(<<"u", 2>>, "alice_manager", "MANAGER", "HR", CONFIDENTIAL,
                HashedAlice123, TRUE),
       SeedUser(<<"u", 3>>, "bob_staff", "STAFF", "FINANCE", INTERNAL,
                HashedBob123, FALSE),
       SeedUser(<<"u", 4>>, "charlie_sales", "STAFF", "SALES", PUBLIC,
                HashedCharlie123, FALSE) >>

\* MOCK_USERS with the placeholder digest of admin ("Simulated hash")
\* replaced by the digest of the password it names
SeededUsers ==
    [MOCK_USERS EXCEPT ![1].passwordHash = hashPassword(PwAdmin)]

-----------------------------------------------------------------------------
(* constants.ts: MOCK_RESOURCES.  name, type and content are left out: no  *)
(* handler reads them.                                                     *)

SeedResource(id, ownerId, classification, department, sharedWith) ==
    [id |-> id, ownerId |-> ownerId, classification |-> classification,
     department |-> department, sharedWith |-> sharedWith]

MOCK_RESOURCES ==
    << SeedResource(<<"r", 1>>, <<"u", 1>>, TOP_SECRET, "HR", <<>>),
       SeedResource(<<"r", 2>>, <<"u", 3>>, CONFIDENTIAL, "FINANCE",
                    << <<"u", 2>> >>),
       SeedResource(<<"r", 3>>, <<"u", 2>>, PUBLIC, "HR", <<>>),
       SeedResource(<<"r", 4>>, <<"u", 4>>, INTERNAL, "SALES",
                    << <<"u", 2>> >>) >>

\* null
NoResource == [id |-> <<"null", 0>>]

-----------------------------------------------------------------------------
(* App.tsx: the registry operations *)

\* null
NoUser == [id |-> <<"null", 0>>]

NoLog == [action |-> "", status |-> "", details |-> <<>>]

\* the entry addLog puts at the head of logs (id, timestamp, actor and
\* ipAddress are left out); the last addLog of a handler is the one kept
LogEntry(action, status, details) ==
    [action |-> action, status |-> status, details |-> details]

\* users.find(u => u.username === username): 0 when there is none
FindByUsername(us, username) ==
    IF \E i \in 1..Len(us) : us[i].username = username
    THEN CHOOSE i \in 1..Len(us) :
            /\ us[i].username = username
            /\ \A j \in 1..(i - 1) : us[j].username # username
    ELSE 0

FindById(us, id) ==
    IF \E i \in 1..Len(us) : us[i].id = id
    THEN CHOOSE i \in 1..Len(us) :
            /\ us[i].id = id
            /\ \A j \in 1..(i - 1) : us[j].id # id
    ELSE 0

\* mutant: a failure is recorded for every user of the registry
recordLoginAttemptEveryUser(us, username, success) ==
    [i \in 1..Len(us) |->
        IF success
        THEN IF us[i].username = username
             THEN [us[i] EXCEPT !.failedLoginAttempts = 0, !.isLocked = FALSE]
             ELSE us[i]
        ELSE LET newAttempts == us[i].failedLoginAttempts + 1
                 isNowLocked == newAttempts >= 3
             IN  [us[i] EXCEPT !.failedLoginAttempts = newAttempts,
                               !.isLocked = isNowLocked]]

\* mutant: the account locks only above three failures
recordLoginAttemptAboveThree(us, username, success) ==
    [i \in 1..Len(us) |->
        IF us[i].username = username
        THEN IF success
             THEN [us[i] EXCEPT !.failedLoginAttempts = 0, !.isLocked = FALSE]
             ELSE LET newAttempts == us[i].failedLoginAttempts + 1
                      isNowLocked == newAttempts > 3
                  IN  [us[i] EXCEPT !.failedLoginAttempts = newAttempts,
                                    !.isLocked = isNowLocked]
        ELSE us[i]]

recordLoginAttempt(us, username, success) ==
    [i \in 1..Len(us) |->
        IF us[i].username = username
        THEN IF success
             THEN [us[i] EXCEPT !.failedLoginAttempts = 0, !.isLocked = FALSE]
             ELSE LET newAttempts == us[i].failedLoginAttempts + 1
                      isNowLocked == newAttempts >= 3
                  IN  [us[i] EXCEPT !.failedLoginAttempts = newAttempts,
                                    !.isLocked = isNowLocked]
        ELSE us[i]]

\* setUsers(prev => prev.map(u => u.id === updatedUser.id ? updatedUser : u))
ReplaceUser(us, updatedUser) ==
    [i \in 1..Len(us) |-> IF us[i].id = updatedUser.id THEN updatedUser ELSE us[i]]

-----------------------------------------------------------------------------
(* The inputs typed into the forms *)

\* "dave" is free to register, "ghost" never registers
LoginNames == {"admin", "dave", "ghost"}

RegNames == {"dave", "admin"}

RegPasswords == {PwStrong, PwAdmin}

NewPasswords == {PwNew, PwAdmin}

MfaTokens == {"123456", "000000"}

Usernames == {"admin", "alice_manager", "bob_staff", "charlie_sales",
              "dave", "ghost", ""}

-----------------------------------------------------------------------------
(* components/Auth.tsx: AuthScreen.  A handler is the record of the state  *)
(* it leaves: the registry, the current user, the component state, the     *)
(* error message it shows, the entry it adds to the audit log (NoLog when  *)
(* it adds none), whether a fresh captcha is drawn, and the branch it      *)
(* returned from.  No handler reads the error message or the audit log:    *)
(* they are what a handler shows, and are not kept in the state.           *)

Outcome(us, cur, st, tmp, err, log, refresh, result) ==
    [users |-> us, currentUser |-> cur, step |-> st, tempUser |-> tmp,
     error |-> err, log |-> log, refresh |-> refresh, result |-> result]

\* mutant: a login does not record the success
handleLoginUnrecorded(user) ==
    Outcome(users, user, step, tempUser, "",
            LogEntry("USER_LOGIN", "SUCCESS",
                     <<"User ", user.username, " logged in successfully">>),
            FALSE, "authenticated")

\* App.handleLogin(user), called as login(user) by both login steps
handleLogin(user) ==
    Outcome(recordLoginAttempt(users, user.username, TRUE), user,
            step, tempUser, "",
            LogEntry("USER_LOGIN", "SUCCESS",
                     <<"User ", user.username, " logged in successfully">>),
            FALSE, "authenticated")

\* mutant: the puzzle is examined after the password
handleLoginSubmitCaptchaLast(username, password, captchaInput) ==
    LET i == FindByUsername(users, username)
        user == users[i]
    IN  IF i = 0
        THEN Outcome(users, currentUser, step, tempUser, "Invalid credentials.",
                     LogEntry("LOGIN_ATTEMPT", "ERROR",
                              <<"Unknown user: ", username>>),
                     TRUE, "unknown-user")
        ELSE IF user.isLocked
        THEN Outcome(users, currentUser, step, tempUser,
                     "Account is locked due to too many failed attempts.",
                     LogEntry("LOGIN_ATTEMPT", "DENIED",
                              <<"Locked account attempt: ", username>>),
                     FALSE, "locked")
        ELSE IF hashPassword(password) # user.passwordHash
        THEN Outcome(recordLoginAttempt(users, username, FALSE), currentUser,
                     step, tempUser, "Invalid credentials.",
                     LogEntry("LOGIN_ATTEMPT", "DENIED",
                              <<"Invalid password for: ", username>>),
                     TRUE, "bad-password")
        ELSE IF captchaInput # captcha
        THEN Outcome(users, currentUser, step, tempUser, "Incorrect Captcha.",
                     NoLog, TRUE, "captcha")
        ELSE IF user.mfaEnabled
        THEN Outcome(users, currentUser, "MFA", user, "", NoLog,
                     FALSE, "second-factor")
        ELSE handleLogin(user)

\* mutant: the password is examined before the lock state
handleLoginSubmitPasswordFirst(username, password, captchaInput) ==
    LET i == FindByUsername(users, username)
        user == users[i]
    IN  IF captchaInput # captcha
        THEN Outcome(users, currentUser, step, tempUser, "Incorrect Captcha.",
                     NoLog, TRUE, "captcha")
        ELSE IF i = 0
        THEN Outcome(users, currentUser, step, tempUser, "Invalid credentials.",
                     LogEntry("LOGIN_ATTEMPT", "ERROR",
                              <<"Unknown user: ", username>>),
                     TRUE, "unknown-user")
        ELSE IF hashPassword(password) # user.passwordHash
        THEN Outcome(recordLoginAttempt(users, username, FALSE), currentUser,
                     step, tempUser, "Invalid credentials.",
                     LogEntry("LOGIN_ATTEMPT", "DENIED",
                              <<"Invalid password for: ", username>>),
                     TRUE, "bad-password")
        ELSE IF user.isLocked
        THEN Outcome(users, currentUser, step, tempUser,
                     "Account is locked due to too many failed attempts.",
                     LogEntry("LOGIN_ATTEMPT", "DENIED",
                              <<"Locked account attempt: ", username>>),
                     FALSE, "locked")
        ELSE IF user.mfaEnabled
        THEN Outcome(users, currentUser, "MFA", user, "", NoLog,
                     FALSE, "second-factor")
        ELSE handleLogin(user)

handleLoginSubmit(username, password, captchaInput) ==
    LET i == FindByUsername(users, username)
        user == users[i]
    IN  IF captchaInput # captcha
        THEN Outcome(users, currentUser, step, tempUser, "Incorrect Captcha.",
                     NoLog, TRUE, "captcha")
        ELSE IF i = 0
        THEN Outcome(users, currentUser, step, tempUser, "Invalid credentials.",
                     LogEntry("LOGIN_ATTEMPT", "ERROR",
                              <<"Unknown user: ", username>>),
                     TRUE, "unknown-user")
        ELSE IF user.isLocked
        THEN Outcome(users, currentUser, step, tempUser,
                     "Account is locked due to too many failed attempts.",
                     LogEntry("LOGIN_ATTEMPT", "DENIED",
                              <<"Locked account attempt: ", username>>),
                     FALSE, "locked")
        ELSE IF hashPassword(password) # user.passwordHash
        THEN Outcome(recordLoginAttempt(users, username, FALSE), currentUser,
                     step, tempUser, "Invalid credentials.",
                     LogEntry("LOGIN_ATTEMPT", "DENIED",
                              <<"Invalid password for: ", username>>),
                     TRUE, "bad-password")
        ELSE IF user.mfaEnabled
        THEN Outcome(users, currentUser, "MFA", user, "", NoLog,
                     FALSE, "second-factor")
        ELSE handleLogin(user)

\* mutant: every token is accepted
handleMfaSubmitAnyToken(mfaToken) ==
    IF tempUser # NoUser
    THEN handleLogin(tempUser)
    ELSE Outcome(recordLoginAttempt(users, "", FALSE), currentUser,
                 step, tempUser, "Invalid MFA Token",
                 LogEntry("MFA_VERIFY", "DENIED", <<"Invalid MFA for ", "">>),
                 FALSE, "bad-token")

handleMfaSubmit(mfaToken) ==
    IF mfaToken = "123456" /\ tempUser # NoUser
    THEN handleLogin(tempUser)
    ELSE LET name == IF tempUser # NoUser THEN tempUser.username ELSE ""
         IN  Outcome(recordLoginAttempt(users, name, FALSE), currentUser,
                     step, tempUser, "Invalid MFA Token",
                     LogEntry("MFA_VERIFY", "DENIED", <<"Invalid MFA for ", name>>),
                     FALSE, "bad-token")

\* `u${users.length + 1}`
NewUserId == <<"u", Len(users) + 1>>

handleRegister(regUsername, regPass, captchaInput) ==
    IF ~validatePasswordStrength(regPass)
    THEN Outcome(users, currentUser, step, tempUser,
                 "Password must be 8+ chars, include uppercase, number, and symbol.",
                 NoLog, FALSE, "weak-password")
    ELSE IF captchaInput # captcha
    THEN Outcome(users, currentUser, step, tempUser, "Incorrect Captcha.",
                 NoLog, FALSE, "captcha")
    ELSE IF FindByUsername(users, regUsername) # 0
    THEN Outcome(users, currentUser, step, tempUser, "Username taken.",
                 NoLog, FALSE, "username-taken")
    ELSE LET newUser ==
                 [id |-> NewUserId, username |-> regUsername,
                  passwordHash |-> hashPassword(regPass),
                  role |-> "STAFF", department |-> "IT",
                  clearanceLevel |-> PUBLIC, mfaEnabled |-> TRUE,
                  isLocked |-> FALSE, failedLoginAttempts |-> 0]
         IN  Outcome(Append(users, newUser), currentUser, step, tempUser, "",
                     LogEntry("USER_REGISTER", "SUCCESS",
                              <<"New user registered: ", regUsername>>),
                     FALSE, "registered")

\* a failed attempt counts toward the streak, a login ends it
StreakAfter(o, username) ==
    IF o.result = "authenticated"
    THEN [streak EXCEPT ![o.currentUser.username] = 0]
    ELSE IF o.result \in {"bad-password", "bad-token"}
    THEN [streak EXCEPT ![username] = @ + 1]
    ELSE streak

\* The state a handler of AuthScreen leaves.  App renders AuthScreen only
\* while currentUser is null: a login unmounts it and its state is gone.
AuthStep(o, username) ==
    /\ users' = o.users
    /\ currentUser' = o.currentUser
    /\ IF o.currentUser # NoUser
       THEN /\ step' = "CREDENTIALS"
            /\ tempUser' = NoUser
            /\ captcha' = 0
       ELSE /\ step' = o.step
            /\ tempUser' = o.tempUser
            /\ captcha' \in (IF o.refresh THEN CaptchaAnswers ELSE {captcha})
    /\ streak' = StreakAfter(o, username)
    /\ UNCHANGED <<config, resourceVars, pending,
                   editingId, editForm, hour, decisions>>

\* the sign-in form, shown at step CREDENTIALS
LoginSubmit ==
    /\ currentUser = NoUser
    /\ step = "CREDENTIALS"
    /\ \E username \in LoginNames, password \in Passwords,
          captchaInput \in CaptchaInputs(captcha) :
            AuthStep(handleLoginSubmit(username, password, captchaInput), username)

\* the second-factor form, shown at step MFA
MfaSubmit ==
    /\ currentUser = NoUser
    /\ step = "MFA"
    /\ \E mfaToken \in MfaTokens :
        /\ LET i == FindByUsername(users, tempUser.username)
           IN  mfaToken = "123456" \/ i = 0
               \/ users[i].failedLoginAttempts < MaxAttempts
        /\ AuthStep(handleMfaSubmit(mfaToken), tempUser.username)

\* the Cancel button of the second-factor form
CancelMfa ==
    /\ currentUser = NoUser
    /\ step = "MFA"
    /\ step' = "CREDENTIALS"
    /\ UNCHANGED <<users, currentUser, config, resourceVars, pending,
                   tempUser, captcha,
                   editingId, editForm, hour, decisions, streak>>

\* the registration form, shown at step CREDENTIALS
Register ==
    /\ currentUser = NoUser
    /\ step = "CREDENTIALS"
    /\ Len(users) < MaxUsers
    /\ \E regUsername \in RegNames, regPass \in RegPasswords,
          captchaInput \in CaptchaInputs(captcha) :
            AuthStep(handleRegister(regUsername, regPass, captchaInput),
                     regUsername)

\* the refresh button of the puzzle
RefreshCaptcha ==
    /\ currentUser = NoUser
    /\ step = "CREDENTIALS"
    /\ captcha' \in CaptchaAnswers
    /\ UNCHANGED <<users, currentUser, config, resourceVars, pending,
                   step, tempUser,
                   editingId, editForm, hour, decisions, streak>>

\* "Create new account" / "Back to Login": setMode(...); refreshCaptcha().
\* The mode is not kept: both forms are one click apart at step CREDENTIALS,
\* and the click draws a fresh puzzle.
SwitchMode ==
    /\ currentUser = NoUser
    /\ step = "CREDENTIALS"
    /\ captcha' \in CaptchaAnswers
    /\ UNCHANGED <<users, currentUser, config, resourceVars, pending,
                   step, tempUser,
                   editingId, editForm, hour, decisions, streak>>

-----------------------------------------------------------------------------
(* components/Auth.tsx: the two asynchronous handlers, step by step.       *)
(* handleLoginSubmit and handleRegister run up to `await hashPassword` in  *)
(* the event that submits the form and resume in a later task; other       *)
(* events run in between.  A call that waits keeps what its closure holds: *)
(* the inputs, the user found and the users of the render it started in.   *)
(* The digests are delivered in any order.                                 *)

\* the calls that wait on hashPassword at the same time
MaxPending == 2

\* the passwords of the overlapping sign-in attempts: the one "dave"
\* registers with and a wrong one
OverlapPasswords == {PwStrong, PwNew}

Call(kind, username, password, user, closureUsers) ==
    [kind |-> kind, username |-> username, password |-> password,
     user |-> user, users |-> closureUsers]

\* pending without its i-th call
Resumed(i) == [j \in 1..(Len(pending) - 1) |->
                  IF j < i THEN pending[j] ELSE pending[j + 1]]

\* handleLoginSubmit up to `const hashed = await hashPassword(password)`
handleLoginSubmitUntilAwait(username, password, captchaInput) ==
    LET i == FindByUsername(users, username)
        user == users[i]
    IN  IF captchaInput # captcha
        THEN Outcome(users, currentUser, step, tempUser, "Incorrect Captcha.",
                     NoLog, TRUE, "captcha")
        ELSE IF i = 0
        THEN Outcome(users, currentUser, step, tempUser, "Invalid credentials.",
                     LogEntry("LOGIN_ATTEMPT", "ERROR",
                              <<"Unknown user: ", username>>),
                     TRUE, "unknown-user")
        ELSE IF user.isLocked
        THEN Outcome(users, currentUser, step, tempUser,
                     "Account is locked due to too many failed attempts.",
                     LogEntry("LOGIN_ATTEMPT", "DENIED",
                              <<"Locked account attempt: ", username>>),
                     FALSE, "locked")
        ELSE Outcome(users, currentUser, step, tempUser, "", NoLog,
                     FALSE, "awaiting")

\* handleLoginSubmit from the digest on; user is the one found before
handleLoginSubmitAfterAwait(call) ==
    IF hashPassword(call.password) # call.user.passwordHash
    THEN Outcome(recordLoginAttempt(users, call.username, FALSE), currentUser,
                 step, tempUser, "Invalid credentials.",
                 LogEntry("LOGIN_ATTEMPT", "DENIED",
                          <<"Invalid password for: ", call.username>>),
                 TRUE, "bad-password")
    ELSE IF call.user.mfaEnabled
    THEN Outcome(users, currentUser, "MFA", call.user, "", NoLog,
                 FALSE, "second-factor")
    ELSE handleLogin(call.user)

\* handleRegister up to `passwordHash: await hashPassword(regPass)`
handleRegisterUntilAwait(regUsername, regPass, captchaInput) ==
    IF ~validatePasswordStrength(regPass)
    THEN Outcome(users, currentUser, step, tempUser,
                 "Password must be 8+ chars, include uppercase, number, and symbol.",
                 NoLog, FALSE, "weak-password")
    ELSE IF captchaInput # captcha
    THEN Outcome(users, currentUser, step, tempUser, "Incorrect Captcha.",
                 NoLog, FALSE, "captcha")
    ELSE IF FindByUsername(users, regUsername) # 0
    THEN Outcome(users, currentUser, step, tempUser, "Username taken.",
                 NoLog, FALSE, "username-taken")
    ELSE Outcome(users, currentUser, step, tempUser, "", NoLog,
                 FALSE, "awaiting")

\* App.handleAddUser: setUsers([...users, newUser]), users being the
\* registry of the render the caller was created in
handleAddUser(closureUsers, newUser) == Append(closureUsers, newUser)

\* handleRegister from the digest on
handleRegisterAfterAwait(call) ==
    LET newUser ==
            [id |-> <<"u", Len(call.users) + 1>>, username |-> call.username,
             passwordHash |-> hashPassword(call.password),
             role |-> "STAFF", department |-> "IT",
             clearanceLevel |-> PUBLIC, mfaEnabled |-> TRUE,
             isLocked |-> FALSE, failedLoginAttempts |-> 0]
    IN  Outcome(handleAddUser(call.users, newUser), currentUser, step,
                tempUser, "",
                LogEntry("USER_REGISTER", "SUCCESS",
                         <<"New user registered: ", call.username>>),
                FALSE, "registered")

\* The state one half of an asynchronous handler leaves: AuthStep, with
\* the calls that wait.  After a login AuthScreen is unmounted and the
\* updates of its state by a resumed call are dropped.
AsyncStep(o, username, calls) ==
    /\ users' = o.users
    /\ currentUser' = o.currentUser
    /\ IF o.currentUser # NoUser
       THEN /\ step' = "CREDENTIALS"
            /\ tempUser' = NoUser
            /\ captcha' = 0
       ELSE /\ step' = o.step
            /\ tempUser' = o.tempUser
            /\ captcha' \in (IF o.refresh THEN CaptchaAnswers ELSE {captcha})
    /\ streak' = StreakAfter(o, username)
    /\ pending' = calls
    /\ UNCHANGED <<config, resourceVars, editingId, editForm, hour, decisions>>

\* the sign-in form is submitted
StartLogin ==
    /\ currentUser = NoUser
    /\ step = "CREDENTIALS"
    /\ Len(pending) < MaxPending
    /\ \E username \in LoginNames, password \in OverlapPasswords,
          captchaInput \in CaptchaInputs(captcha) :
            LET o == handleLoginSubmitUntilAwait(username, password,
                                                 captchaInput)
                call == Call("login", username, password,
                             users[FindByUsername(users, username)], <<>>)
            IN  AsyncStep(o, username,
                          IF o.result = "awaiting"
                          THEN Append(pending, call) ELSE pending)

\* the digest of a submitted password arrives
FinishLogin ==
    \E i \in 1..Len(pending) :
        /\ pending[i].kind = "login"
        /\ AsyncStep(handleLoginSubmitAfterAwait(pending[i]),
                     pending[i].username, Resumed(i))

\* the registration form is submitted
StartRegister ==
    /\ currentUser = NoUser
    /\ step = "CREDENTIALS"
    /\ Len(users) < MaxUsers
    /\ Len(pending) < MaxPending
    /\ \E regUsername \in RegNames, regPass \in RegPasswords,
          captchaInput \in CaptchaInputs(captcha) :
            LET o == handleRegisterUntilAwait(regUsername, regPass,
                                              captchaInput)
                call == Call("register", regUsername, regPass, NoUser, users)
            IN  AsyncStep(o, regUsername,
                          IF o.result = "awaiting"
                          THEN Append(pending, call) ELSE pending)

\* the digest of the password of a new account arrives
FinishRegister ==
    \E i \in 1..Len(pending) :
        /\ pending[i].kind = "register"
        /\ AsyncStep(handleRegisterAfterAwait(pending[i]),
                     pending[i].username, Resumed(i))

-----------------------------------------------------------------------------
(* App.tsx: handleLogout, handleUpdateUser; Profile.tsx *)

NoId == <<"null", 0>>

\* AuthScreen mounts again with a fresh puzzle; the views unmount
Logout ==
    /\ currentUser # NoUser
    /\ currentUser' = NoUser
    /\ step' = "CREDENTIALS"
    /\ tempUser' = NoUser
    /\ captcha' \in CaptchaAnswers
    /\ editingId' = NoId
    /\ editForm' = NoUser
    /\ selectedResource' = NoResource
    /\ UNCHANGED <<users, config, resources, pending, hour, decisions, streak>>

\* mutant: the registry is updated and the current user is left as it was
handleUpdateUserRegistryOnly(updatedUser) ==
    [users |-> ReplaceUser(users, updatedUser),
     currentUser |-> currentUser,
     log |-> IF currentUser.role = "ADMIN" /\ currentUser.id # updatedUser.id
             THEN LogEntry("USER_ADMIN_UPDATE", "SUCCESS",
                           <<"Admin updated user: ", updatedUser.username>>)
             ELSE NoLog]

handleUpdateUser(updatedUser) ==
    [users |-> ReplaceUser(users, updatedUser),
     currentUser |-> IF currentUser.id = updatedUser.id
                     THEN updatedUser ELSE currentUser,
     log |-> IF currentUser.role = "ADMIN" /\ currentUser.id # updatedUser.id
             THEN LogEntry("USER_ADMIN_UPDATE", "SUCCESS",
                           <<"Admin updated user: ", updatedUser.username>>)
             ELSE NoLog]

\* mutant: the profile form carries a role
handleProfileUpdateWithRole(mfaEnabled) ==
    LET o == handleUpdateUser([currentUser EXCEPT !.mfaEnabled = mfaEnabled,
                                                  !.role = "MANAGER"])
    IN  [o EXCEPT !.log = LogEntry("PROFILE_UPDATE", "SUCCESS",
                                   <<"User updated own profile">>)]

\* Profile.handleProfileUpdate: updateUser({...currentUser, ...formData})
handleProfileUpdate(mfaEnabled) ==
    LET o == handleUpdateUser([currentUser EXCEPT !.mfaEnabled = mfaEnabled])
    IN  [o EXCEPT !.log = LogEntry("PROFILE_UPDATE", "SUCCESS",
                                   <<"User updated own profile">>)]

\* Profile.handlePasswordChange
handlePasswordChange(current, new, confirm) ==
    LET same == [users |-> users, currentUser |-> currentUser, log |-> NoLog]
    IN  IF hashPassword(current) # currentUser.passwordHash
        THEN [same EXCEPT !.log =
                 LogEntry("PASSWORD_CHANGE", "DENIED",
                          <<"Incorrect current password provided">>)]
        ELSE IF ~validatePasswordStrength(new) THEN same
        ELSE IF new # confirm THEN same
        ELSE LET o == handleUpdateUser(
                          [currentUser EXCEPT !.passwordHash = hashPassword(new)])
             IN  [o EXCEPT !.log = LogEntry("PASSWORD_CHANGE", "SUCCESS",
                                            <<"User changed password">>)]

\* The state a handler of a logged-in view leaves.  The Profile view and
\* the Access Controls view are never mounted together: a Profile handler
\* runs with the edit form of UserManagement gone.
ProfileStep(o) ==
    /\ users' = o.users
    /\ currentUser' = o.currentUser
    /\ editingId' = NoId
    /\ editForm' = NoUser
    /\ selectedResource' = NoResource
    /\ UNCHANGED <<config, resources, pending,
                   step, tempUser, captcha, hour, decisions,
                   streak>>

ProfileUpdate ==
    /\ currentUser # NoUser
    /\ \E mfaEnabled \in BOOLEAN : ProfileStep(handleProfileUpdate(mfaEnabled))

PasswordChange ==
    /\ currentUser # NoUser
    /\ \E current \in Passwords, new \in NewPasswords, confirm \in NewPasswords :
            ProfileStep(handlePasswordChange(current, new, confirm))

-----------------------------------------------------------------------------
(* components/AccessControlPanel.tsx: UserManagement.  The panel renders   *)
(* its handlers only for a current user of role ADMIN (the guard).         *)
(* saveEdit and Cancel leave the old editForm behind; nothing reads it     *)
(* before startEdit overwrites it, and the model clears it with editingId. *)

EditTargets == {<<"u", 1>>, <<"u", 5>>}

\* the value picked in a select of the row being edited
EditChoices == {[field |-> "role", value |-> "MANAGER"]}

PanelShown == currentUser # NoUser /\ currentUser.role = "ADMIN"

\* { ...original, ...editForm }
Merge(original, form) ==
    [f \in (DOMAIN original) \cup (DOMAIN form) |->
        IF f \in DOMAIN form THEN form[f] ELSE original[f]]

PanelStep(o) ==
    /\ users' = o.users
    /\ currentUser' = o.currentUser
    /\ selectedResource' = NoResource
    /\ UNCHANGED <<config, resources, pending,
                   step, tempUser, captcha, hour, decisions>>

\* the edit button of a row that is not being edited
StartEdit ==
    /\ PanelShown
    /\ \E i \in 1..Len(users) :
        /\ users[i].id \in EditTargets
        /\ editingId # users[i].id
        /\ editingId' = users[i].id
        /\ editForm' = users[i]
    /\ selectedResource' = NoResource
    /\ UNCHANGED <<users, currentUser, config, resources, pending,
                   step, tempUser, captcha,
                   hour, decisions, streak>>

\* the three selects of the row being edited
ChangeEditForm ==
    /\ PanelShown
    /\ editingId # NoId
    /\ \E c \in EditChoices : editForm' = [editForm EXCEPT ![c.field] = c.value]
    /\ selectedResource' = NoResource
    /\ UNCHANGED <<users, currentUser, config, resources, pending,
                   step, tempUser, captcha,
                   editingId, hour, decisions, streak>>

saveEdit ==
    LET i == FindById(users, editingId)
    IN  IF editingId # NoId /\ editForm.id # NoId /\ i # 0
        THEN handleUpdateUser(Merge(users[i], editForm))
        ELSE [users |-> users, currentUser |-> currentUser, log |-> NoLog]

SaveEdit ==
    /\ PanelShown
    /\ editingId # NoId
    /\ PanelStep(saveEdit)
    /\ editingId' = IF FindById(users, editingId) # 0 THEN NoId ELSE editingId
    /\ editForm' = IF FindById(users, editingId) # 0 THEN NoUser ELSE editForm
    /\ UNCHANGED streak

CancelEdit ==
    /\ PanelShown
    /\ editingId # NoId
    /\ editingId' = NoId
    /\ editForm' = NoUser
    /\ selectedResource' = NoResource
    /\ UNCHANGED <<users, currentUser, config, resources, pending,
                   step, tempUser, captcha,
                   hour, decisions, streak>>

unlockUser(user) ==
    handleUpdateUser([user EXCEPT !.isLocked = FALSE, !.failedLoginAttempts = 0])

\* the LOCKED (Unlock) button, shown in the row of a locked user that is
\* not being edited
UnlockUser ==
    /\ PanelShown
    /\ \E i \in 1..Len(users) :
        /\ users[i].isLocked
        /\ editingId # users[i].id
        /\ PanelStep(unlockUser(users[i]))
        /\ streak' = [streak EXCEPT ![users[i].username] = 0]
    /\ UNCHANGED <<editingId, editForm>>

-----------------------------------------------------------------------------
(* App.tsx: handleConfigUpdate; AccessControlPanel.tsx: the policies tab.  *)
(* The tab of the panel is not kept: the two tabs are one click apart, and *)
(* a handler of the policies tab runs with UserManagement unmounted.       *)

\* the keys the policy cards pass to togglePolicy
PolicyKeys == {"enableMAC", "enableDAC", "enableRBAC", "enableABAC",
               "enableRuBAC"}

\* what is typed into a working-hours field
TimeInputs ==
    { <<"0">>, <<"2", "3">>, <<"2", "4">>, <<"-", "1">>, <<"8", ".", "5">>,
      <<"x">>, <<>> }

DigitValue ==
    [c \in Digits |->
        CASE c = "0" -> 0 [] c = "1" -> 1 [] c = "2" -> 2 [] c = "3" -> 3
          [] c = "4" -> 4 [] c = "5" -> 5 [] c = "6" -> 6 [] c = "7" -> 7
          [] c = "8" -> 8 [] c = "9" -> 9]

\* the number of leading digits of a string
LeadingDigits(str) ==
    IF \E n \in 1..Len(str) : str[n] \notin Digits
    THEN (CHOOSE n \in 1..Len(str) :
             /\ str[n] \notin Digits
             /\ \A m \in 1..(n - 1) : str[m] \in Digits) - 1
    ELSE Len(str)

RECURSIVE DecimalValue(_, _)
\* the value of the first n characters of a string of digits
DecimalValue(str, n) ==
    IF n = 0 THEN 0
    ELSE 10 * DecimalValue(str, n - 1) + DigitValue[str[n]]

\* parseInt(val): an optional sign and the leading digits; NaN without any
parseInt(val) ==
    LET signed == Len(val) > 0 /\ val[1] \in {"-", "+"}
        body == IF signed THEN Tail(val) ELSE val
        n == LeadingDigits(body)
        magnitude == DecimalValue(body, n)
    IN  IF n = 0 THEN [isNaN |-> TRUE, value |-> 0]
        ELSE [isNaN |-> FALSE,
              value |-> IF signed /\ val[1] = "-"
                        THEN 0 - magnitude ELSE magnitude]

\* mutant: the role of the current user is not examined
handleConfigUpdateUnguarded(newConfig) ==
    [config |-> newConfig,
     log |-> LogEntry("SYSTEM_CONFIG_CHANGE", "SUCCESS",
                      <<"Security policies updated">>)]

handleConfigUpdate(newConfig) ==
    IF currentUser # NoUser /\ currentUser.role = "ADMIN"
    THEN [config |-> newConfig,
          log |-> LogEntry("SYSTEM_CONFIG_CHANGE", "SUCCESS",
                           <<"Security policies updated">>)]
    ELSE [config |-> config,
          log |-> LogEntry("SYSTEM_CONFIG_CHANGE", "DENIED",
                           <<"Unauthorized attempt to change config">>)]

togglePolicy(key) ==
    IF config[key] \in BOOLEAN
    THEN handleConfigUpdate([config EXCEPT ![key] = ~config[key]])
    ELSE [config |-> config, log |-> NoLog]

\* mutant: the upper end of the range is not examined
handleTimeChangeNoUpperEnd(type, val) ==
    LET num == parseInt(val)
        key == IF type = "start" THEN "workingHoursStart"
               ELSE "workingHoursEnd"
    IN  IF ~num.isNaN /\ num.value >= 0
        THEN handleConfigUpdate([config EXCEPT ![key] = num.value])
        ELSE [config |-> config, log |-> NoLog]

handleTimeChange(type, val) ==
    LET num == parseInt(val)
        key == IF type = "start" THEN "workingHoursStart"
               ELSE "workingHoursEnd"
    IN  IF ~num.isNaN /\ num.value >= 0 /\ num.value <= 23
        THEN handleConfigUpdate([config EXCEPT ![key] = num.value])
        ELSE [config |-> config, log |-> NoLog]

\* The state a handler of the policies tab leaves
PolicyStep(o) ==
    /\ config' = o.config
    /\ editingId' = NoId
    /\ editForm' = NoUser
    /\ selectedResource' = NoResource
    /\ UNCHANGED <<users, currentUser, resources, pending,
                   step, tempUser, captcha, hour, decisions, streak>>

\* the switch of a policy card
TogglePolicy ==
    /\ PanelShown
    /\ \E key \in PolicyKeys : PolicyStep(togglePolicy(key))

\* the working-hours fields, shown in the RuBAC card while RuBAC is on
TimeChange ==
    /\ PanelShown
    /\ config.enableRuBAC
    /\ \E type \in {"start", "end"}, val \in TimeInputs :
        PolicyStep(handleTimeChange(type, val))

-----------------------------------------------------------------------------
(* components/ResourceList (AuditLog.tsx); App.tsx: handleResourceUpdate.  *)
(* accessResult only selects the text of the empty viewer and is left out; *)
(* showShareModal is folded into Share: the Share button and the click on  *)
(* a user of the modal are one step.  closeViewer is bound to no element.  *)

\* the users the share modal is opened for
ShareTargets == {<<"u", 1>>, <<"u", 2>>}

\* setResources(prev => prev.map(r => r.id === updatedResource.id ? ... ))
handleResourceUpdate(updatedResource) ==
    [i \in 1..Len(resources) |->
        IF resources[i].id = updatedResource.id
        THEN updatedResource ELSE resources[i]]

\* mutant: the resource is shown whatever the decision
handleAccessAlwaysShown(resource) ==
    LET decision == checkAccess(currentUser, resource, config, hour)
    IN  [selectedResource |-> resource,
         log |-> LogEntry("ACCESS_RESOURCE",
                          IF decision.allowed THEN "SUCCESS" ELSE "DENIED",
                          IF decision.allowed THEN <<"Access granted">>
                          ELSE decision.reason)]

handleAccess(resource) ==
    LET decision == checkAccess(currentUser, resource, config, hour)
    IN  [selectedResource |-> IF decision.allowed THEN resource ELSE NoResource,
         log |-> LogEntry("ACCESS_RESOURCE",
                          IF decision.allowed THEN "SUCCESS" ELSE "DENIED",
                          IF decision.allowed THEN <<"Access granted">>
                          ELSE decision.reason)]

\* selectedResource is the object handleAccess stored, not the entry of
\* resources: updateResource does not refresh it
handleShare(userIdToShare) ==
    IF selectedResource # NoResource
    THEN [resources |->
              handleResourceUpdate(
                  [selectedResource EXCEPT
                      !.sharedWith = Append(@, userIdToShare)]),
          log |-> LogEntry("DAC_SHARE", "SUCCESS",
                           <<"Resource shared with ", userIdToShare>>)]
    ELSE [resources |-> resources, log |-> NoLog]

\* a click on the card of a resource
Access ==
    /\ currentUser # NoUser
    /\ \E i \in 1..Len(resources) :
        selectedResource' = handleAccess(resources[i]).selectedResource
    /\ editingId' = NoId
    /\ editForm' = NoUser
    /\ UNCHANGED <<users, currentUser, config, resources, pending,
                   step, tempUser, captcha, hour, decisions, streak>>

\* the Share button of the viewer, then a user of the modal's list:
\* users.filter(u => u.id !== currentUser?.id
\*                   && !selectedResource.sharedWith.includes(u.id))
Share ==
    /\ currentUser # NoUser
    /\ selectedResource # NoResource
    /\ \E i \in 1..Len(users) :
        /\ users[i].id \in ShareTargets
        /\ users[i].id # currentUser.id
        /\ ~Includes(selectedResource.sharedWith, users[i].id)
        /\ resources' = handleShare(users[i].id).resources
    /\ UNCHANGED <<users, currentUser, config, selectedResource, pending,
                   step, tempUser, captcha, editingId, editForm,
                   hour, decisions, streak>>

-----------------------------------------------------------------------------
(* The program *)

\* no evaluation round was made
NoDecisions == [taken |-> FALSE, at |-> 0, of |-> <<>>]

InitWith(registry) ==
    /\ users = registry
    /\ currentUser = NoUser
    /\ config = INITIAL_CONFIG
    /\ step = "CREDENTIALS"
    /\ tempUser = NoUser
    /\ captcha \in CaptchaAnswers
    /\ editingId = NoId
    /\ editForm = NoUser
    /\ hour = 0
    /\ decisions = NoDecisions
    /\ streak = [n \in Usernames |-> 0]
    /\ resources = MOCK_RESOURCES
    /\ selectedResource = NoResource
    /\ pending = <<>>

\* the program as shipped: the registry is MOCK_USERS
Init == InitWith(MOCK_USERS)

\* hashPassword never returns a placeholder digest of MOCK_USERS, so under
\* Init no seeded user logs in, no current user has role ADMIN and the
\* handlers of AccessControlPanel are never rendered: Next leaves them out.
Next ==
    \/ LoginSubmit
    \/ MfaSubmit
    \/ CancelMfa
    \/ Register
    \/ RefreshCaptcha
    \/ SwitchMode
    \/ Logout
    \/ ProfileUpdate
    \/ PasswordChange

Spec == Init /\ [][Next]_vars

\* The program with either registry: MOCK_USERS as shipped, or MOCK_USERS
\* with the digest of admin's password in place of its placeholder.  Every
\* behaviour of Spec is one of SpecSeeded, which also has ADMIN sessions.
InitSeeded == \E registry \in {MOCK_USERS, SeededUsers} : InitWith(registry)

NextSeeded ==
    \/ Next
    \/ StartEdit
    \/ ChangeEditForm
    \/ SaveEdit
    \/ CancelEdit
    \/ UnlockUser

SpecSeeded == InitSeeded /\ [][NextSeeded]_vars

\* The program as shipped, with the Resources view
NextShare ==
    \/ Next
    \/ Access
    \/ Share

SpecShare == Init /\ [][NextShare]_vars

\* The sessions of the program whose admin has a real digest, with the
\* policies tab of the panel
NextPolicy ==
    \/ LoginSubmit
    \/ MfaSubmit
    \/ Register
    \/ Logout
    \/ TogglePolicy
    \/ TimeChange

SpecPolicy == InitWith(SeededUsers) /\ [][NextPolicy]_vars

\* The sign-in screen of the program as shipped, with the asynchronous
\* handlers taken in their two halves
NextRace ==
    \/ StartLogin
    \/ FinishLogin
    \/ StartRegister
    \/ FinishRegister
    \/ MfaSubmit
    \/ CancelMfa
    \/ RefreshCaptcha
    \/ SwitchMode

SpecRace == Init /\ [][NextRace]_vars

-----------------------------------------------------------------------------
(* The evaluation harness: a subject is the current user and opens every   *)
(* resource of a bounded set (ResourceList.handleAccess calls              *)
(* checkAccess(currentUser, resource, config)), under the config and at    *)
(* the hour of the state.                                                  *)

SubjectIds == {<<"u", 3>>}

OwnerIds == {<<"u", 1>>, <<"u", 3>>}

ShareLists == {<<>>, << <<"u", 3>> >>}

HarnessDepartments == {"FINANCE", "HR"}

Subjects ==
    [id : SubjectIds, role : Role, department : HarnessDepartments,
     clearanceLevel : SecurityLevel]

Resources ==
    [ownerId : OwnerIds, classification : SecurityLevel,
     department : HarnessDepartments, sharedWith : ShareLists]

Configs ==
    [enableMAC : BOOLEAN, enableDAC : BOOLEAN, enableRBAC : BOOLEAN,
     enableRuBAC : BOOLEAN, enableABAC : BOOLEAN,
     workingHoursStart : Hours, workingHoursEnd : Hours]

\* one round: the Decision of checkAccess for every resource
EvaluateAll ==
    /\ decisions' = [taken |-> TRUE, at |-> hour,
                     of |-> [r \in Resources |->
                                checkAccess(currentUser, r, config, hour)]]
    /\ UNCHANGED <<users, currentUser, config, resourceVars, pending,
                   step, tempUser, captcha,
                   editingId, editForm, hour, streak>>

\* time passes
Tick ==
    /\ hour' = (hour + 1) % (MaxHour + 1)
    /\ UNCHANGED <<appVars, decisions>>

InitAccess ==
    /\ users = MOCK_USERS
    /\ currentUser \in Subjects
    /\ config \in Configs
    /\ step = "CREDENTIALS"
    /\ tempUser = NoUser
    /\ captcha = 0
    /\ editingId = NoId
    /\ editForm = NoUser
    /\ hour \in Hours
    /\ decisions = NoDecisions
    /\ streak = [n \in Usernames |-> 0]
    /\ resources = MOCK_RESOURCES
    /\ selectedResource = NoResource
    /\ pending = <<>>

NextAccess == EvaluateAll \/ Tick

SpecAccess == InitAccess /\ [][NextAccess]_vars

-----------------------------------------------------------------------------
(* The deny condition of each model, as the specification states it *)

FailsMAC(user, resource) == user.clearanceLevel < resource.classification

FailsABAC(user, resource) ==
    /\ user.role # "ADMIN"
    /\ user.department # resource.department
    /\ resource.classification > PUBLIC

FailsRBAC(user, resource) ==
    \/ resource.classification = TOP_SECRET /\ user.role # "ADMIN"
    \/ resource.classification >= CONFIDENTIAL /\ user.role = "STAFF"

OutsideWindow(cfg, h) == h < cfg.workingHoursStart \/ h >= cfg.workingHoursEnd

FailsRuBAC(user, cfg, h) == OutsideWindow(cfg, h) /\ user.role # "ADMIN"

FailsDAC(user, resource) ==
    /\ resource.ownerId # user.id
    /\ \A i \in 1..Len(resource.sharedWith) : resource.sharedWith[i] # user.id
    /\ user.role # "ADMIN"
    /\ ~(user.role = "MANAGER" /\ user.department = resource.department)
    /\ resource.classification > PUBLIC

\* the fixed order of the models, by the tag that opens a deny reason
ModelTags == <<"MAC: ", "ABAC: ", "RBAC: ", "RuBAC: ", "DAC: ">>

\* the models of the fixed order that are enabled and whose deny condition holds
DenyingModels(user, resource, cfg, h) ==
    {m \in 1..5 :
        \/ m = 1 /\ cfg.enableMAC /\ FailsMAC(user, resource)
        \/ m = 2 /\ cfg.enableABAC /\ FailsABAC(user, resource)
        \/ m = 3 /\ cfg.enableRBAC /\ FailsRBAC(user, resource)
        \/ m = 4 /\ cfg.enableRuBAC /\ FailsRuBAC(user, cfg, h)
        \/ m = 5 /\ cfg.enableDAC /\ FailsDAC(user, resource)}

First(S) == CHOOSE m \in S : \A n \in S : m <= n

AllEnabled(cfg) ==
    cfg.enableMAC /\ cfg.enableDAC /\ cfg.enableRBAC /\ cfg.enableRuBAC
    /\ cfg.enableABAC

AllDisabled(cfg) ==
    ~cfg.enableMAC /\ ~cfg.enableDAC /\ ~cfg.enableRBAC /\ ~cfg.enableRuBAC
    /\ ~cfg.enableABAC

OnlyMAC(cfg) ==
    cfg.enableMAC /\ ~cfg.enableDAC /\ ~cfg.enableRBAC /\ ~cfg.enableRuBAC
    /\ ~cfg.enableABAC

-----------------------------------------------------------------------------
(* C1: when checkAccess denies, the reason names the first model, in the   *)
(* order MAC, ABAC, RBAC, RuBAC, DAC, that is enabled and whose deny       *)
(* condition holds; a resource failing both MAC and RBAC, both enabled, is *)
(* denied with the MAC reason.                                             *)
C1_FirstDenyingModelReported ==
    decisions.taken =>
        \A r \in Resources :
            LET d == decisions.of[r]
                failing == DenyingModels(currentUser, r, config, decisions.at)
            IN  /\ ~d.allowed =>
                    failing # {} /\ d.reason[1] = ModelTags[First(failing)]
                /\ (config.enableMAC /\ config.enableRBAC
                    /\ FailsMAC(currentUser, r) /\ FailsRBAC(currentUser, r))
                   => ~d.allowed /\ d.reason[1] = "MAC: "

C1_Witness ==
    /\ decisions.taken
    /\ config.enableMAC /\ config.enableRBAC
    /\ \E r \in Resources :
        /\ FailsMAC(currentUser, r) /\ FailsRBAC(currentUser, r)
        /\ ~decisions.of[r].allowed
        /\ decisions.of[r].reason[1] = "MAC: "

(* C2 as claimed: a call made now returns the Decision the same call       *)
(* returned in the last round, whatever time has passed since.             *)
C2_SameDecisionAtAnyTime ==
    decisions.taken =>
        \A r \in Resources :
            checkAccess(currentUser, r, config, hour) = decisions.of[r]

(* C2, amended: a call made now returns the Decision the same call         *)
(* returned in the last round when RuBAC is disabled, or the subject is    *)
(* ADMIN, or the two hours lie on the same side of the working-hour window.*)
C2_SameDecisionUpToClock ==
    decisions.taken =>
        \A r \in Resources :
            (\/ ~config.enableRuBAC
             \/ currentUser.role = "ADMIN"
             \/ OutsideWindow(config, decisions.at) <=> OutsideWindow(config, hour))
            => checkAccess(currentUser, r, config, hour) = decisions.of[r]

C2_Witness ==
    /\ decisions.taken
    /\ decisions.at # hour
    /\ config.enableRuBAC
    /\ currentUser.role = "ADMIN"
    /\ OutsideWindow(config, decisions.at) /\ ~OutsideWindow(config, hour)
    /\ \A r \in Resources :
        checkAccess(currentUser, r, config, hour) = decisions.of[r]

\* the subject and the resources of the concrete scenario of C3
ScenarioSubject ==
    /\ currentUser.role = "STAFF"
    /\ currentUser.department = "FINANCE"
    /\ currentUser.clearanceLevel = INTERNAL

ScenarioResources ==
    {r \in Resources :
        /\ r.classification = PUBLIC
        /\ r.department = "FINANCE"
        /\ r.ownerId # currentUser.id
        /\ r.sharedWith = <<>>}

(* C3 as claimed: the STAFF / FINANCE / INTERNAL subject is allowed on the *)
(* PUBLIC FINANCE resource of another owner with all five models enabled,  *)
(* for every window and every hour.                                        *)
C3_ScenarioAllowedAtEveryHour ==
    (decisions.taken /\ ScenarioSubject /\ AllEnabled(config)) =>
        \A r \in ScenarioResources : decisions.of[r].allowed

(* C3, amended: with all five models enabled that subject is allowed on    *)
(* that resource exactly when the current hour lies in the window          *)
(* workingHoursStart <= hour < workingHoursEnd, and is denied by RuBAC     *)
(* otherwise.                                                              *)
C3_ScenarioAllowedInWindow ==
    (decisions.taken /\ ScenarioSubject /\ AllEnabled(config)) =>
        \A r \in ScenarioResources :
            IF OutsideWindow(config, decisions.at)
            THEN ~decisions.of[r].allowed /\ decisions.of[r].reason[1] = "RuBAC: "
            ELSE decisions.of[r] = Granted

C3_Witness ==
    /\ decisions.taken /\ ScenarioSubject /\ AllEnabled(config)
    /\ ~OutsideWindow(config, decisions.at)
    /\ ScenarioResources # {}
    /\ \A r \in ScenarioResources : decisions.of[r] = Granted

(* C9: with all five models disabled checkAccess allows, for every         *)
(* subject, resource, window and hour.                                     *)
C9_AllModelsOffAllows ==
    (decisions.taken /\ AllDisabled(config)) =>
        \A r \in Resources : decisions.of[r] = Granted

C9_Witness ==
    /\ decisions.taken /\ AllDisabled(config)
    /\ OutsideWindow(config, decisions.at)
    /\ \E r \in Resources :
        /\ FailsMAC(currentUser, r) /\ FailsRBAC(currentUser, r)
        /\ FailsABAC(currentUser, r) /\ FailsDAC(currentUser, r)
        /\ decisions.of[r].allowed

(* C10: a subject whose clearance is at least the classification is never  *)
(* denied by MAC; with only MAC enabled the denials are exactly the        *)
(* resources classified above the clearance.                               *)
C10_MacByOrder ==
    decisions.taken =>
        \A r \in Resources :
            LET d == decisions.of[r]
            IN  /\ currentUser.clearanceLevel >= r.classification
                   => ~(~d.allowed /\ d.reason[1] = "MAC: ")
                /\ OnlyMAC(config)
                   => (~d.allowed <=> currentUser.clearanceLevel < r.classification)

C10_Witness ==
    /\ decisions.taken /\ OnlyMAC(config)
    /\ currentUser.clearanceLevel = INTERNAL
    /\ \E r \in Resources : r.classification = CONFIDENTIAL /\ ~decisions.of[r].allowed
    /\ \E r \in Resources : r.classification = PUBLIC /\ decisions.of[r].allowed

-----------------------------------------------------------------------------
(* The login flow *)

\* the registry row of the user with this id
Row(us, id) == us[FindById(us, id)]

LockedMessage == "Account is locked due to too many failed attempts."

(* C4: no login transition, at the password step or at the second-factor   *)
(* step, makes a user the current user while that user's isLocked is true  *)
(* in the registry.                                                        *)
C4_LockedNeverAuthenticates ==
    [][(currentUser = NoUser /\ currentUser' # NoUser)
        => /\ FindById(users, currentUser'.id) # 0
           /\ ~Row(users, currentUser'.id).isLocked]_vars

(* C5: a user's isLocked changes from true to false only through the admin *)
(* unlock: the current user has role ADMIN and the step leaves the user    *)
(* with failedLoginAttempts 0.                                             *)
C5_LockClearedOnlyByAdminUnlock ==
    [][\A i \in 1..Len(users) :
          (users[i].isLocked /\ ~users'[i].isLocked)
          => /\ currentUser # NoUser
             /\ currentUser.role = "ADMIN"
             /\ users'[i].failedLoginAttempts = 0]_vars

(* C6: a user is locked once three failed attempts were made with no       *)
(* successful login or unlock in between, and is not locked after fewer    *)
(* than three failed attempts since the last successful login or unlock.   *)
C6_LockoutThreshold ==
    \A i \in 1..Len(users) :
        /\ streak[users[i].username] >= 3 => users[i].isLocked
        /\ users[i].isLocked => streak[users[i].username] >= 3

(* C7: for every user of the registry, isLocked is true if and only if     *)
(* failedLoginAttempts >= 3.                                               *)
C7_LockedIffThreeFailures ==
    \A i \in 1..Len(users) :
        users[i].isLocked <=> users[i].failedLoginAttempts >= 3

C7_Witness ==
    /\ currentUser # NoUser
    /\ currentUser.role = "ADMIN"
    /\ \E i \in 1..Len(users) :
        users[i].isLocked /\ users[i].failedLoginAttempts > 3
    /\ \E i \in 1..Len(users) :
        ~users[i].isLocked /\ users[i].failedLoginAttempts = 2

(* C8: for a locked user a credentials submission with the correct captcha *)
(* is rejected as locked whatever the password: the error shown, the step  *)
(* and the registry are the same for every password, and no                *)
(* failedLoginAttempts changes.                                            *)
C8_LockedRejectedBeforePassword ==
    (currentUser = NoUser /\ step = "CREDENTIALS") =>
        \A username \in LoginNames :
            LET i == FindByUsername(users, username)
            IN  (i # 0 /\ users[i].isLocked) =>
                    \A p \in Passwords, q \in Passwords :
                        LET o == handleLoginSubmit(username, p, captcha)
                        IN  /\ o = handleLoginSubmit(username, q, captcha)
                            /\ o.result = "locked"
                            /\ o.error = LockedMessage
                            /\ o.step = "CREDENTIALS"
                            /\ o.currentUser = NoUser
                            /\ o.users = users

C8_Witness ==
    /\ currentUser = NoUser /\ step = "CREDENTIALS"
    /\ \E username \in LoginNames :
        LET i == FindByUsername(users, username)
        IN  /\ i # 0 /\ users[i].isLocked
            /\ \E p \in Passwords, q \in Passwords :
                /\ hashPassword(p) = users[i].passwordHash
                /\ hashPassword(q) # users[i].passwordHash
                /\ handleLoginSubmit(username, p, captcha).error = LockedMessage
                /\ handleLoginSubmit(username, q, captcha).users = users

-----------------------------------------------------------------------------
(* One model at a time *)

\* the toggles of a config, as the set of the models it enables (by order)
EnabledModels(cfg) ==
    {m \in 1..5 :
        \/ m = 1 /\ cfg.enableMAC
        \/ m = 2 /\ cfg.enableABAC
        \/ m = 3 /\ cfg.enableRBAC
        \/ m = 4 /\ cfg.enableRuBAC
        \/ m = 5 /\ cfg.enableDAC}

(* C11: with only DAC enabled checkAccess denies exactly when the subject  *)
(* is not the owner, not in sharedWith, not ADMIN, not a MANAGER of the    *)
(* resource's department, and the classification is above PUBLIC.          *)
C11_OnlyDac ==
    (decisions.taken /\ EnabledModels(config) = {5}) =>
        \A r \in Resources :
            /\ ~decisions.of[r].allowed <=> FailsDAC(currentUser, r)
            /\ (currentUser.role = "MANAGER"
                /\ currentUser.department = r.department)
               => decisions.of[r] = Granted

C11_Witness ==
    /\ decisions.taken /\ EnabledModels(config) = {5}
    /\ currentUser.role = "MANAGER"
    /\ \E r \in Resources :
        /\ r.department = currentUser.department
        /\ r.ownerId # currentUser.id /\ r.sharedWith = <<>>
        /\ r.classification > PUBLIC
        /\ decisions.of[r].allowed
    /\ \E r \in Resources : ~decisions.of[r].allowed

C13_OnlyAbac ==
    (decisions.taken /\ EnabledModels(config) = {2}) =>
        \A r \in Resources :
            /\ ~decisions.of[r].allowed <=> FailsABAC(currentUser, r)
            /\ (r.classification = PUBLIC \/ currentUser.role = "ADMIN")
               => decisions.of[r] = Granted

C13_Witness ==
    /\ decisions.taken /\ EnabledModels(config) = {2}
    /\ currentUser.role # "ADMIN"
    /\ \E r \in Resources :
        /\ r.department # currentUser.department
        /\ r.classification = PUBLIC
        /\ decisions.of[r].allowed
    /\ \E r \in Resources :
        /\ r.department # currentUser.department
        /\ ~decisions.of[r].allowed
        /\ decisions.of[r].reason[1] = "ABAC: "

(* C14: with only RuBAC enabled a subject that is not ADMIN is allowed     *)
(* exactly when workingHoursStart <= hour < workingHoursEnd, and an ADMIN  *)
(* is allowed at every hour and for every window.                          *)
C14_OnlyRubac ==
    (decisions.taken /\ EnabledModels(config) = {4}) =>
        \A r \in Resources :
            IF currentUser.role = "ADMIN"
            THEN decisions.of[r] = Granted
            ELSE decisions.of[r].allowed <=>
                    /\ config.workingHoursStart <= decisions.at
                    /\ decisions.at < config.workingHoursEnd

C14_Witness ==
    /\ decisions.taken /\ EnabledModels(config) = {4}
    /\ currentUser.role # "ADMIN"
    /\ config.workingHoursStart > config.workingHoursEnd
    /\ decisions.at >= config.workingHoursStart
    /\ \A r \in Resources : ~decisions.of[r].allowed

(* C15: every Decision is either allowed with the reason "Access Granted", *)
(* or denied with a reason that begins with the name of exactly one of the *)
(* five models, and that model is enabled in the config.                   *)
C15_ReasonNamesOneEnabledModel ==
    decisions.taken =>
        \A r \in Resources :
            LET d == decisions.of[r]
                named == {m \in 1..5 : d.reason[1] = ModelTags[m]}
            IN  IF d.allowed
                THEN d.reason = <<"Access Granted">>
                ELSE /\ Cardinality(named) = 1
                     /\ named \subseteq EnabledModels(config)

C15_Witness ==
    /\ decisions.taken
    /\ EnabledModels(config) = {3, 5}
    /\ \E r \in Resources : decisions.of[r].reason[1] = "RBAC: "
    /\ \E r \in Resources : decisions.of[r].reason[1] = "DAC: "
    /\ \E r \in Resources : FailsMAC(currentUser, r) /\ decisions.of[r].allowed

\* the config with the window of cfg and exactly the models of on enabled
WithModels(cfg, on) ==
    [cfg EXCEPT !.enableMAC = 1 \in on, !.enableABAC = 2 \in on,
                !.enableRBAC = 3 \in on, !.enableRuBAC = 4 \in on,
                !.enableDAC = 5 \in on]

(* C16: if checkAccess allows under a config, it allows under every config *)
(* obtained from it by switching toggles off (same subject, resource,      *)
(* window and hour); the all-true config denies whenever any config does.  *)
C16_EnablingNeverWidens ==
    decisions.taken =>
        \A r \in Resources :
            /\ decisions.of[r].allowed =>
                \A on \in SUBSET EnabledModels(config) :
                    checkAccess(currentUser, r, WithModels(config, on),
                                decisions.at).allowed
            /\ ~decisions.of[r].allowed =>
                ~checkAccess(currentUser, r, WithModels(config, 1..5),
                             decisions.at).allowed

C16_Witness ==
    /\ decisions.taken
    /\ EnabledModels(config) = {1, 5}
    /\ \E r \in Resources :
        /\ decisions.of[r].allowed
        /\ ~checkAccess(currentUser, r, WithModels(config, 1..5),
                        decisions.at).allowed
    /\ \E r \in Resources :
        /\ ~decisions.of[r].allowed
        /\ checkAccess(currentUser, r, WithModels(config, {}),
                       decisions.at).allowed

-----------------------------------------------------------------------------
(* The counters of the registry *)

(* C17: after every successful login, by password alone or by the correct  *)
(* second-factor token, the registry's failedLoginAttempts of the user who *)
(* logged in is 0, whatever the count was before.                          *)
C17_LoginResetsCount ==
    [][(currentUser = NoUser /\ currentUser' # NoUser)
        => /\ FindById(users', currentUser'.id) # 0
           /\ Row(users', currentUser'.id).failedLoginAttempts = 0]_vars

\* just after a password-only login that followed failed attempts: the
\* current user is the row as found before the reset
C17_Witness ==
    /\ currentUser # NoUser
    /\ ~currentUser.mfaEnabled
    /\ currentUser.failedLoginAttempts >= 1
    /\ FindById(users, currentUser.id) # 0
    /\ Row(users, currentUser.id).failedLoginAttempts = 0

\* the two counters of every user of a registry
Counters(us) ==
    [i \in 1..Len(us) |->
        <<us[i].failedLoginAttempts, us[i].isLocked>>]

(* C18: a profile update, a password change and an admin edit leave        *)
(* failedLoginAttempts and isLocked of every user unchanged, including for *)
(* a user who logged in after earlier failed attempts.                     *)
C18_CountersKeptByUpdates ==
    currentUser # NoUser =>
        /\ \A mfaEnabled \in BOOLEAN :
            Counters(handleProfileUpdate(mfaEnabled).users) = Counters(users)
        /\ \A current \in Passwords, new \in NewPasswords :
            Counters(handlePasswordChange(current, new, new).users)
                = Counters(users)
        /\ Counters(saveEdit.users) = Counters(users)

-----------------------------------------------------------------------------
(* Sharing *)

(* C19: a share only adds.  Every step that changes the registry of        *)
(* resources changes one resource, to its previous registry entry with one *)
(* id appended to sharedWith: every id shared before is still shared, also *)
(* at the second share on the same selected resource, and the other fields *)
(* and resources are as before.                                            *)
C19_ShareOnlyAdds ==
    [][resources' # resources =>
        \E i \in 1..Len(resources) : \E u \in ShareTargets :
            resources' = [resources EXCEPT
                             ![i].sharedWith = Append(@, u)]]_vars

-----------------------------------------------------------------------------
(* Overlapping attempts *)

(* C20: under any interleaving of failed attempts on the sign-in screen,   *)
(* overlapping submissions and a registration in flight included, no       *)
(* failedLoginAttempts of the registry decreases: while nobody logs in,    *)
(* every user of the registry is still there after a step, with a count at *)
(* least as high.                                                          *)
C20_CountNeverDecreases ==
    [][(currentUser = NoUser /\ currentUser' = NoUser)
        => \A i \in 1..Len(users) :
            /\ FindById(users', users[i].id) # 0
            /\ Row(users', users[i].id).failedLoginAttempts
                   >= users[i].failedLoginAttempts]_vars

-----------------------------------------------------------------------------
(* The credentials step *)

\* the answers to the puzzle that are not its answer
WrongCaptchaInputs == CaptchaInputs(captcha) \ {captcha}

(* C21: a credentials submission is checked in the order captcha, user     *)
(* lookup, lock state, password.  With a wrong captcha answer it is        *)
(* rejected for every username and password, a fresh captcha is drawn, the *)
(* registry is unchanged, nobody becomes the current user and the attempt  *)
(* does not count towards the lockout; with the right answer an unknown    *)
(* username is rejected as unknown for every password.                     *)
C21_CaptchaCheckedFirst ==
    (currentUser = NoUser /\ step = "CREDENTIALS") =>
        \A username \in LoginNames, password \in Passwords :
            /\ \A captchaInput \in WrongCaptchaInputs :
                LET o == handleLoginSubmit(username, password, captchaInput)
                IN  /\ o.result = "captcha"
                    /\ o.error = "Incorrect Captcha."
                    /\ o.refresh
                    /\ o.users = users
                    /\ o.currentUser = NoUser
                    /\ o.step = "CREDENTIALS"
                    /\ o.log = NoLog
                    /\ StreakAfter(o, username) = streak
            /\ FindByUsername(users, username) = 0
               => LET o == handleLoginSubmit(username, password, captcha)
                  IN  o.result = "unknown-user" /\ o.users = users

C21_Witness ==
    /\ currentUser = NoUser /\ step = "CREDENTIALS"
    /\ \E username \in LoginNames, password \in Passwords :
        LET i == FindByUsername(users, username)
        IN  /\ i # 0 /\ ~users[i].isLocked
            /\ users[i].failedLoginAttempts = 2
            /\ hashPassword(password) # users[i].passwordHash
            /\ \E captchaInput \in WrongCaptchaInputs :
                handleLoginSubmit(username, password, captchaInput).result
                    = "captcha"
    /\ \E i \in 1..Len(users) : users[i].isLocked

\* the registry with one more failure recorded in row i and nothing else
OneMoreFailure(us, i) ==
    [us EXCEPT ![i] = [us[i] EXCEPT
                          !.failedLoginAttempts = us[i].failedLoginAttempts + 1,
                          !.isLocked = us[i].failedLoginAttempts + 1 >= 3]]

(* C22: a rejected password attempt changes only its target.  For an       *)
(* unknown username the registry is unchanged; for an existing unlocked    *)
(* user with a wrong password the registry afterwards is the registry      *)
(* before with that user's failedLoginAttempts one higher and isLocked     *)
(* recomputed, every other user and field as before; in both cases nobody  *)
(* becomes the current user and the flow stays at the credentials step.    *)
C22_RejectionChangesOnlyTarget ==
    (currentUser = NoUser /\ step = "CREDENTIALS") =>
        \A username \in LoginNames, password \in Passwords :
            LET i == FindByUsername(users, username)
                o == handleLoginSubmit(username, password, captcha)
            IN  /\ i = 0
                   => /\ o.result = "unknown-user"
                      /\ o.users = users
                      /\ o.currentUser = NoUser
                      /\ o.step = "CREDENTIALS"
                /\ (/\ i # 0
                    /\ ~users[i].isLocked
                    /\ hashPassword(password) # users[i].passwordHash)
                   => /\ o.result = "bad-password"
                      /\ o.users = OneMoreFailure(users, i)
                      /\ o.currentUser = NoUser
                      /\ o.step = "CREDENTIALS"
                      /\ o.tempUser = tempUser

C22_Witness ==
    /\ currentUser = NoUser /\ step = "CREDENTIALS"
    /\ \E username \in LoginNames, password \in Passwords :
        LET i == FindByUsername(users, username)
            o == handleLoginSubmit(username, password, captcha)
        IN  /\ i # 0 /\ ~users[i].isLocked
            /\ users[i].failedLoginAttempts = 2
            /\ o.result = "bad-password"
            /\ o.users[i].isLocked
            /\ \E j \in 1..Len(users) :
                /\ j # i
                /\ users[j].failedLoginAttempts = 1
                /\ o.users[j] = users[j]

-----------------------------------------------------------------------------
(* The second factor *)

\* the outcomes of the credentials form for a correct captcha answer
PasswordStepGated ==
    \A username \in LoginNames, password \in Passwords :
        LET i == FindByUsername(users, username)
            o == handleLoginSubmit(username, password, captcha)
            correct == /\ i # 0
                       /\ ~users[i].isLocked
                       /\ hashPassword(password) = users[i].passwordHash
        IN  /\ (correct /\ users[i].mfaEnabled)
               => /\ o.result = "second-factor"
                  /\ o.currentUser = NoUser
                  /\ o.step = "MFA"
                  /\ o.tempUser = users[i]
            /\ (correct /\ ~users[i].mfaEnabled)
               => /\ o.result = "authenticated"
                  /\ o.currentUser = users[i]
            /\ o.currentUser # NoUser => (correct /\ ~users[i].mfaEnabled)

\* the outcomes of the second-factor form
TokenStepGated ==
    /\ tempUser # NoUser
    /\ tempUser.mfaEnabled
    /\ \A mfaToken \in MfaTokens :
        LET o == handleMfaSubmit(mfaToken)
        IN  IF mfaToken = "123456"
            THEN o.result = "authenticated" /\ o.currentUser = tempUser
            ELSE o.result = "bad-token" /\ o.currentUser = NoUser

\* the second-factor step is entered from the credentials step, holding
\* a user of the registry, with nobody logged in
EntersTokenStep ==
    (step # "MFA" /\ step' = "MFA")
        => /\ step = "CREDENTIALS"
           /\ currentUser = NoUser
           /\ currentUser' = NoUser
           /\ FindById(users, tempUser'.id) # 0
           /\ Row(users, tempUser'.id) = tempUser'

\* a user with mfaEnabled true logs in at the second-factor step only
GatedLogin ==
    (/\ currentUser = NoUser
     /\ currentUser' # NoUser
     /\ Row(users, currentUser'.id).mfaEnabled)
        => step = "MFA" /\ tempUser = currentUser'

(* C23: second-factor gating.  A correct password of a user with           *)
(* mfaEnabled true moves the flow to the second-factor step, holding that  *)
(* user, without authenticating; only the correct token at that step makes *)
(* the held user the current user.  A correct password of a user with      *)
(* mfaEnabled false makes that user the current user directly.  The        *)
(* second-factor step is entered only from the credentials step, and a     *)
(* user whose registry entry has mfaEnabled true becomes the current user  *)
(* only at the second-factor step.                                         *)
C23_SecondFactorGating ==
    /\ [](currentUser = NoUser =>
            /\ (step = "CREDENTIALS" => PasswordStepGated)
            /\ (step = "MFA" => TokenStepGated))
    /\ [][EntersTokenStep /\ GatedLogin]_vars

C23_Witness ==
    /\ currentUser # NoUser
    /\ currentUser.mfaEnabled
    /\ Row(users, currentUser.id).mfaEnabled
    /\ \E i \in 1..Len(users), password \in Passwords :
        /\ users[i].id # currentUser.id
        /\ ~users[i].mfaEnabled
        /\ users[i].passwordHash = hashPassword(password)

-----------------------------------------------------------------------------
(* The policy config *)

IsAdmin == currentUser # NoUser /\ currentUser.role = "ADMIN"

\* the configs one click or one typed hour away from the current one
RequestedConfigs ==
    {[config EXCEPT ![key] = ~config[key]] : key \in PolicyKeys}
        \cup {[config EXCEPT !.workingHoursStart = h] : h \in 0..23}
        \cup {[config EXCEPT !.workingHoursEnd = h] : h \in 0..23}

\* a request made while the current user is not ADMIN changes nothing and
\* is recorded as DENIED
DeniedForOthers ==
    ~IsAdmin =>
        /\ \A newConfig \in RequestedConfigs :
            LET o == handleConfigUpdate(newConfig)
            IN  /\ o.config = config
                /\ o.log.action = "SYSTEM_CONFIG_CHANGE"
                /\ o.log.status = "DENIED"
        /\ \A key \in PolicyKeys :
            togglePolicy(key).config = config
            /\ togglePolicy(key).log.status = "DENIED"
        /\ \A type \in {"start", "end"}, val \in TimeInputs :
            handleTimeChange(type, val).config = config

(* C24: the policy config changes only in steps taken while the current    *)
(* user has role ADMIN; a config update requested while the current user   *)
(* is not ADMIN (or nobody is logged in) leaves the five toggles and both  *)
(* working-hour bounds unchanged and is recorded as DENIED.                *)
C24_ConfigOnlyByAdmin ==
    /\ []DeniedForOthers
    /\ [][config' # config => IsAdmin]_vars

C24_Witness ==
    /\ currentUser # NoUser
    /\ currentUser.role = "STAFF"
    /\ ~config.enableMAC
    /\ config.workingHoursEnd = 23
    /\ handleConfigUpdate(INITIAL_CONFIG).config = config
    /\ handleConfigUpdate(INITIAL_CONFIG).log.status = "DENIED"

-----------------------------------------------------------------------------
(* The viewer *)

\* what an attempt on a resource of the registry leaves, by the Decision
AttemptFollowsDecision ==
    currentUser # NoUser =>
        \A i \in 1..Len(resources) :
            LET decision == checkAccess(currentUser, resources[i], config, hour)
                o == handleAccess(resources[i])
            IN  /\ o.log.action = "ACCESS_RESOURCE"
                /\ o.log.status = "SUCCESS" <=> decision.allowed
                /\ decision.allowed
                   => /\ o.selectedResource = resources[i]
                      /\ o.log.details = <<"Access granted">>
                /\ ~decision.allowed
                   => /\ o.selectedResource = NoResource
                      /\ o.log.status = "DENIED"
                      /\ o.log.details = decision.reason

\* a step that puts a resource in the viewer
ShownAfterAllow ==
    (selectedResource' # NoResource /\ selectedResource' # selectedResource)
        => /\ currentUser # NoUser
           /\ currentUser' = currentUser
           /\ \E i \in 1..Len(resources) : resources[i] = selectedResource'
           /\ checkAccess(currentUser, selectedResource', config, hour).allowed

(* C25: a resource is shown only after an allow.  The viewer gets a        *)
(* resource only in a step in which checkAccess allows the current user    *)
(* that resource of the registry under the current config; a denied        *)
(* attempt leaves the viewer empty; the audit entry of an attempt has      *)
(* status SUCCESS exactly when the Decision is allowed, and otherwise      *)
(* DENIED with the reason of the Decision.  The viewer is empty while      *)
(* nobody is logged in.                                                    *)
C25_ShownOnlyAfterAllow ==
    /\ []AttemptFollowsDecision
    /\ [](selectedResource # NoResource => currentUser # NoUser)
    /\ [][ShownAfterAllow]_vars

C25_Witness ==
    /\ currentUser # NoUser
    /\ selectedResource # NoResource
    /\ \E i \in 1..Len(resources) :
        /\ resources[i].id # selectedResource.id
        /\ handleAccess(resources[i]).selectedResource = NoResource
        /\ handleAccess(resources[i]).log.status = "DENIED"

-----------------------------------------------------------------------------
(* The attributes of a user *)

\* what the access models read of every user of a registry
Attributes(us) ==
    [i \in 1..Len(us) |->
        <<us[i].id, us[i].role, us[i].department, us[i].clearanceLevel>>]

\* the handlers of a session that are not the admin edit keep the
\* attributes
KeptByOtherHandlers ==
    /\ currentUser # NoUser
       => /\ \A mfaEnabled \in BOOLEAN :
               Attributes(handleProfileUpdate(mfaEnabled).users)
                   = Attributes(users)
          /\ \A current \in Passwords, new \in NewPasswords :
               Attributes(handlePasswordChange(current, new, new).users)
                   = Attributes(users)
    /\ IsAdmin
       => \A i \in 1..Len(users) :
               Attributes(unlockUser(users[i]).users) = Attributes(users)

\* a step (of the sign-in screen or of a session) keeps every user, and
\* changes the attributes of one only as the save of the row an ADMIN is
\* editing
ChangedByAdminEdit ==
    users' # users =>
        \A i \in 1..Len(users) :
            /\ i <= Len(users')
            /\ (\/ users'[i].id # users[i].id
                \/ users'[i].role # users[i].role
                \/ users'[i].department # users[i].department
                \/ users'[i].clearanceLevel # users[i].clearanceLevel)
               => /\ IsAdmin
                  /\ editingId = users[i].id
                  /\ users' = saveEdit.users

(* C26: role, department and clearanceLevel of a user change only through  *)
(* the admin edit, saved while the current user has role ADMIN.  Login     *)
(* recording, second-factor attempts, unlock, profile update and password  *)
(* change leave the three fields of every user unchanged: no user who is   *)
(* not ADMIN changes their own role or clearance.                          *)
C26_AttributesOnlyByAdminEdit ==
    /\ []KeptByOtherHandlers
    /\ [][ChangedByAdminEdit]_vars

C26_Witness ==
    /\ currentUser # NoUser
    /\ currentUser.username = "dave"
    /\ currentUser.role = "MANAGER"
    /\ Row(users, currentUser.id).role = "MANAGER"
    /\ handleProfileUpdate(FALSE).users[FindById(users, currentUser.id)].role
           = "MANAGER"

-----------------------------------------------------------------------------
(* The seeded users *)

SeededNames == {MOCK_USERS[i].username : i \in 1..Len(MOCK_USERS)}

SeededIds == {MOCK_USERS[i].id : i \in 1..Len(MOCK_USERS)}

\* the two-character strings over 0-9, a-f
HexPairs == {HexChars[x] \o HexChars[y] : x, y \in 1..16}

\* hashPassword returns 32 pieces of two lowercase hexadecimal characters,
\* 64 characters; no stored value of MOCK_USERS has 64 characters
DigestForm ==
    /\ \A password \in Passwords :
        LET pieces == HexPieces(Sha256(Encode(password
                                              \o <<"s", "a", "l", "t">>)))
        IN  /\ Len(pieces) = 32
            /\ \A i \in 1..32 : pieces[i] \in HexPairs
            /\ hashPassword(password) = Join(pieces, 32)
            /\ Len(hashPassword(password)) = 64
    /\ \A i \in 1..Len(MOCK_USERS) : Len(MOCK_USERS[i].passwordHash) # 64

(* C27: no seeded user ever authenticates.  hashPassword returns 64        *)
(* lowercase hexadecimal characters and no seeded passwordHash has that    *)
(* form; the rows of the four seeded users keep their passwordHash; for    *)
(* every password an attempt against a seeded user is logged as DENIED:   *)
(* one that reaches the password is counted as a failure, one against a    *)
(* locked seeded user is rejected as locked; no seeded user is held for    *)
(* the second factor or is the current user.                               *)
C27_SeededNeverAuthenticate ==
    /\ DigestForm
    /\ \A i \in 1..Len(MOCK_USERS) :
        /\ users[i].id = MOCK_USERS[i].id
        /\ users[i].username = MOCK_USERS[i].username
        /\ users[i].passwordHash = MOCK_USERS[i].passwordHash
    /\ currentUser # NoUser => currentUser.id \notin SeededIds
    /\ step = "MFA" => tempUser.id \notin SeededIds
    /\ (currentUser = NoUser /\ step = "CREDENTIALS")
       => \A username \in SeededNames, password \in Passwords :
            LET i == FindByUsername(users, username)
                o == handleLoginSubmit(username, password, captcha)
            IN  /\ o.currentUser = NoUser
                /\ o.step = "CREDENTIALS"
                /\ o.log.action = "LOGIN_ATTEMPT"
                /\ o.log.status = "DENIED"
                /\ IF users[i].isLocked
                   THEN o.result = "locked" /\ o.users = users
                   ELSE /\ o.result = "bad-password"
                        /\ o.users = OneMoreFailure(users, i)

C27_Witness ==
    /\ currentUser # NoUser
    /\ \E i \in 1..Len(users) :
        /\ users[i].id \in SeededIds
        /\ users[i].isLocked
        /\ users[i].failedLoginAttempts = 3
        /\ streak[users[i].username] = 3

-----------------------------------------------------------------------------
(* The working hours *)

\* the last hour new Date().getHours() returns
LastHour == 23

(* C28: in every reachable config workingHoursStart and workingHoursEnd    *)
(* lie in 0..23, so whenever RuBAC is enabled every access of a user who   *)
(* is not ADMIN to a resource at hour 23 is denied, whatever window an     *)
(* administrator has configured.                                           *)
C28_HoursInRange ==
    /\ config.workingHoursStart \in 0..LastHour
    /\ config.workingHoursEnd \in 0..LastHour
    /\ config.enableRuBAC
       => \A i \in 1..Len(users), j \in 1..Len(resources) :
            users[i].role # "ADMIN"
                => ~checkAccess(users[i], resources[j], config,
                                LastHour).allowed

C28_Witness ==
    /\ config.enableRuBAC
    /\ config.workingHoursStart = 0
    /\ config.workingHoursEnd = LastHour
    /\ \E i \in 1..Len(users), j \in 1..Len(resources) :
        /\ users[i].role # "ADMIN"
        /\ checkAccess(users[i], resources[j], config, LastHour - 1).allowed
        /\ checkAccess(users[i], resources[j], config, LastHour).reason
               = RubacReason(config)

-----------------------------------------------------------------------------
(* The administrator *)

(* C29: a subject with role ADMIN and clearanceLevel TOP_SECRET is allowed *)
(* by checkAccess for every resource, every combination of the five        *)
(* toggles, every working-hour window and every current hour; an ADMIN     *)
(* with a lower clearance is denied only by MAC, that is with MAC enabled, *)
(* a classification above the clearance and a reason that names MAC.       *)
C29_AdminAllowed ==
    (decisions.taken /\ currentUser.role = "ADMIN") =>
        \A r \in Resources :
            LET d == decisions.of[r]
            IN  /\ currentUser.clearanceLevel = TOP_SECRET => d = Granted
                /\ ~d.allowed
                   => /\ d.reason[1] = "MAC: "
                      /\ config.enableMAC
                      /\ currentUser.clearanceLevel < r.classification

C29_Witness ==
    /\ decisions.taken
    /\ currentUser.role = "ADMIN"
    /\ currentUser.clearanceLevel = TOP_SECRET
    /\ EnabledModels(config) = 1..5
    /\ decisions.at >= config.workingHoursEnd
    /\ \E r \in Resources :
        /\ r.classification = TOP_SECRET
        /\ r.department # currentUser.department
        /\ r.ownerId # currentUser.id /\ r.sharedWith = <<>>
        /\ decisions.of[r] = Granted
        /\ \E s \in Subjects :
            /\ s.role = "ADMIN" /\ s.clearanceLevel = CONFIDENTIAL
            /\ checkAccess(s, r, config, decisions.at).reason[1] = "MAC: "

-----------------------------------------------------------------------------
(* The current user and the registry *)

(* C30: whenever a user is logged in, the registry has an entry with the   *)
(* id of the current user, and the current user has the role, the          *)
(* department and the clearanceLevel of that entry, after any sequence of  *)
(* logins, admin edits (an admin editing their own record included),       *)
(* profile updates and password changes.                                   *)
C30_CurrentUserMatchesRegistry ==
    currentUser # NoUser =>
        LET i == FindById(users, currentUser.id)
        IN  /\ i # 0
            /\ users[i].role = currentUser.role
            /\ users[i].department = currentUser.department
            /\ users[i].clearanceLevel = currentUser.clearanceLevel

\* the administrator, after saving MANAGER into their own row and then
\* changing their password on the profile page
C30_Witness ==
    /\ currentUser # NoUser
    /\ currentUser.username = "admin"
    /\ currentUser.role = "MANAGER"
    /\ Row(users, currentUser.id).role = "MANAGER"
    /\ currentUser.passwordHash \notin {HashedAdmin123, hashPassword(PwAdmin)}

====
